---------------------------- MODULE Spec2Model ----------------------------
(***************************************************************************)
(* A model of Backend/app.py: the AadhaarVerifier extraction and           *)
(* verification pipeline.  Texts are sequences of one-character strings;   *)
(* the regular expressions of the source are written as syntax trees and   *)
(* matched by a backtracking matcher with Python's priority order.         *)
(***************************************************************************)
EXTENDS Integers, Sequences, FiniteSets, TLC

(***************************************************************************)
(* Characters                                                              *)
(***************************************************************************)
Digits == {"0", "1", "2", "3", "4", "5", "6", "7", "8", "9"}

UpperSeq == <<"A", "B", "C", "D", "E", "F", "G", "H", "I", "J", "K", "L", "M",
              "N", "O", "P", "Q", "R", "S", "T", "U", "V", "W", "X", "Y", "Z">>

LowerSeq == <<"a", "b", "c", "d", "e", "f", "g", "h", "i", "j", "k", "l", "m",
              "n", "o", "p", "q", "r", "s", "t", "u", "v", "w", "x", "y", "z">>

Upper == {UpperSeq[i] : i \in DOMAIN UpperSeq}

Lower == {LowerSeq[i] : i \in DOMAIN LowerSeq}

Letters == Upper \cup Lower

\* \s of Python's re, over the characters OCR output can hold
Space == {" ", "\t", "\n", "\r", "\f"}

\* \w of Python's re
WordChars == Letters \cup Digits \cup {"_"}

ToLowerMap == [c \in Upper |-> LowerSeq[CHOOSE i \in DOMAIN UpperSeq : UpperSeq[i] = c]]

\* str.lower() on one character
LowerChar(c) == IF c \in Upper THEN ToLowerMap[c] ELSE c

\* str.lower()
LowerStr(s) == [i \in DOMAIN s |-> LowerChar(s[i])]

Max(S) == CHOOSE x \in S : \A y \in S : y <= x

Min(S) == CHOOSE x \in S : \A y \in S : x <= y

(***************************************************************************)
(* Regular expressions: syntax trees                                       *)
(***************************************************************************)
Node(t, s, kids, lo, hi) == [t |-> t, s |-> s, kids |-> kids, lo |-> lo, hi |-> hi]

Cls(S) == Node("cls", S, <<>>, 0, 0)

NotCls(S) == Node("ncls", S, <<>>, 0, 0)

Cat(kids) == Node("cat", {}, kids, 0, 0)

Alt(kids) == Node("alt", {}, kids, 0, 0)

\* greedy repetition {lo,hi}; hi = -1 is unbounded
Rep(kid, lo, hi) == Node("rep", {}, <<kid>>, lo, hi)

Opt(kid) == Rep(kid, 0, 1)

Star(kid) == Rep(kid, 0, -1)

Plus(kid) == Rep(kid, 1, -1)

Bnd == Node("bnd", {}, <<>>, 0, 0)

Bol == Node("bol", {}, <<>>, 0, 0)

Eol == Node("eol", {}, <<>>, 0, 0)

Look(kid) == Node("look", {}, <<kid>>, 0, 0)

Eps == Cat(<<>>)

\* a literal string
Str(chars) == Cat([i \in DOMAIN chars |-> Cls({chars[i]})])

\* . and [^\n]
Dot == NotCls({"\n"})

(***************************************************************************)
(* The matcher.  M(re, s, p, ic) is the sequence of positions at which a   *)
(* match of re starting at position p of s can end, in the order Python's  *)
(* backtracking tries them; ic is re.IGNORECASE.                            *)
(***************************************************************************)
InCls(S, c, ic) == IF ic THEN \E d \in S : LowerChar(d) = LowerChar(c) ELSE c \in S

IsWordAt(s, p) == p >= 1 /\ p <= Len(s) /\ s[p] \in WordChars

RECURSIVE M(_, _, _, _)
RECURSIVE MCat(_, _, _, _, _)
RECURSIVE MCatFrom(_, _, _, _, _, _)
RECURSIVE MAlt(_, _, _, _, _)
RECURSIVE MRep(_, _, _, _, _)
RECURSIVE MRepFrom(_, _, _, _, _, _)

MCatFrom(ends, i, kids, k, s, ic) ==
    IF i > Len(ends) THEN <<>>
    ELSE MCat(kids, k, s, ends[i], ic) \o MCatFrom(ends, i + 1, kids, k, s, ic)

MCat(kids, k, s, p, ic) ==
    IF k > Len(kids) THEN <<p>>
    ELSE MCatFrom(M(kids[k], s, p, ic), 1, kids, k + 1, s, ic)

MAlt(kids, k, s, p, ic) ==
    IF k > Len(kids) THEN <<>>
    ELSE M(kids[k], s, p, ic) \o MAlt(kids, k + 1, s, p, ic)

MRepFrom(ends, i, re, n, s, ic) ==
    IF i > Len(ends) THEN <<>>
    ELSE (IF ends[i] > Len(s) + 1 THEN <<>> ELSE MRep(re, n + 1, s, ends[i], ic))
         \o MRepFrom(ends, i + 1, re, n, s, ic)

MRep(re, n, s, p, ic) ==
    MRepFrom(IF re.hi = -1 \/ n < re.hi
             THEN SelectSeq(M(re.kids[1], s, p, ic), LAMBDA q : q > p)
             ELSE <<>>,
             1, re, n, s, ic)
    \o (IF n >= re.lo THEN <<p>> ELSE <<>>)

\* the repetition of one character class, computed without recursion: the
\* run of matching characters from p on is k long, and the match can end
\* after k, k - 1, ..., lo of them
MRepCls(re, s, p, ic) ==
    LET hit(i) == InCls(re.kids[1].s, s[i], ic) = (re.kids[1].t = "cls")
        ends(k) == IF k < re.lo THEN <<>>
                   ELSE [i \in 1 .. (k - re.lo + 1) |-> p + k - i + 1]
        capped(most) == ends(IF re.hi # -1 /\ re.hi < most THEN re.hi ELSE most)
    IN  capped(Max({n \in 0 .. (Len(s) - p + 1) : \A i \in p .. (p + n - 1) : hit(i)}))

M(re, s, p, ic) ==
    CASE re.t = "cls"  -> IF p <= Len(s) /\ InCls(re.s, s[p], ic) THEN <<p + 1>> ELSE <<>>
      [] re.t = "ncls" -> IF p <= Len(s) /\ ~InCls(re.s, s[p], ic) THEN <<p + 1>> ELSE <<>>
      [] re.t = "cat"  -> MCat(re.kids, 1, s, p, ic)
      [] re.t = "alt"  -> MAlt(re.kids, 1, s, p, ic)
      [] re.t = "rep"  -> IF re.kids[1].t \in {"cls", "ncls"}
                          THEN MRepCls(re, s, p, ic)
                          ELSE MRep(re, 0, s, p, ic)
      [] re.t = "bnd"  -> IF IsWordAt(s, p - 1) # IsWordAt(s, p) THEN <<p>> ELSE <<>>
      [] re.t = "bol"  -> IF p = 1 THEN <<p>> ELSE <<>>
      [] re.t = "eol"  -> IF p = Len(s) + 1 \/ (p = Len(s) /\ s[p] = "\n")
                          THEN <<p>> ELSE <<>>
      [] re.t = "look" -> IF M(re.kids[1], s, p, ic) # <<>> THEN <<p>> ELSE <<>>


(***************************************************************************)
(* re.search / re.finditer / re.match and match.group(1)                   *)
(***************************************************************************)
\* a compiled pattern: what precedes the capture group, the group, what
\* follows it, and the number of capture groups (0 or 1)
Pat(pre, grp, post, groups) == [pre |-> pre, grp |-> grp, post |-> post, groups |-> groups]

\* None of Python; distinct from every string of characters
None == <<"None">>

RECURSIVE TryPost(_, _, _, _, _, _, _)
RECURSIVE TryGrp(_, _, _, _, _, _)

\* the first way, in priority order, to end the match after the group
TryPost(e2, j, pat, s, st, gs, ic) ==
    IF j > Len(e2) THEN <<>>
    ELSE LET after(e3) ==
                 IF e3 # <<>>
                 THEN <<[st |-> st, gs |-> gs, ge |-> e2[j], en |-> e3[1]]>>
                 ELSE TryPost(e2, j + 1, pat, s, st, gs, ic)
         IN  after(M(pat.post, s, e2[j], ic))

TryGrp(e1, i, pat, s, st, ic) ==
    IF i > Len(e1) THEN <<>>
    ELSE LET after(r) == IF r # <<>> THEN r ELSE TryGrp(e1, i + 1, pat, s, st, ic)
         IN  after(TryPost(M(pat.grp, s, e1[i], ic), 1, pat, s, st, e1[i], ic))

\* the match of pat starting exactly at st: <<>> or <<match>>
MatchAt(pat, s, st, ic) == TryGrp(M(pat.pre, s, st, ic), 1, pat, s, st, ic)

\* re.search from position st on: the leftmost match
SearchFrom(pat, s, st, ic) ==
    LET leftmost(at) ==
            IF \A p \in DOMAIN at : at[p] = <<>> THEN <<>>
            ELSE at[CHOOSE p \in DOMAIN at :
                       at[p] # <<>> /\ \A q \in DOMAIN at : at[q] # <<>> => p <= q]
    IN  leftmost([p \in st .. (Len(s) + 1) |-> MatchAt(pat, s, p, ic)])

Search(pat, s, ic) == SearchFrom(pat, s, 1, ic)

RECURSIVE FindIterFrom(_, _, _, _)
\* re.finditer: the successive non-overlapping matches, left to right
FindIterFrom(pat, s, st, ic) ==
    LET rest(m) ==
            IF m = <<>> THEN <<>>
            ELSE m \o FindIterFrom(pat, s,
                                   IF m[1].en > m[1].st THEN m[1].en ELSE m[1].en + 1, ic)
    IN  rest(SearchFrom(pat, s, st, ic))

FindIter(pat, s, ic) == FindIterFrom(pat, s, 1, ic)

\* s[a:b] with 1-based a and exclusive b
Slice(s, a, b) == SubSeq(s, a, b - 1)

\* match.group(1): the text of the group, or an IndexError when the pattern
\* has no group
Group1(pat, s, m) ==
    IF pat.groups >= 1 THEN [exc |-> "", val |-> Slice(s, m.gs, m.ge)]
    ELSE [exc |-> "IndexError", val |-> None]

\* str.replace(' ', '')
RemoveSpaces(s) == SelectSeq(s, LAMBDA c : c # " ")

\* str.strip()
Strip(s) ==
    LET kept(keep) ==
            IF keep = {} THEN <<>>
            ELSE SubSeq(s, CHOOSE i \in keep : \A j \in keep : i <= j,
                           CHOOSE i \in keep : \A j \in keep : j <= i)
    IN  kept({i \in DOMAIN s : s[i] \notin Space})

(***************************************************************************)
(* extract_aadhaar                                                         *)
(***************************************************************************)
D == Cls(Digits)

WS == Cls(Space)

\* \d{4}\s?\d{4}\s?\d{4}
DigitRun == Cat(<<Rep(D, 4, 4), Opt(WS), Rep(D, 4, 4), Opt(WS), Rep(D, 4, 4)>>)

\* r'\b(\d{4}\s?\d{4}\s?\d{4})\b'
aadhaar_regex == Pat(Bnd, DigitRun, Bnd, 1)

\* the Devanagari word of the label, one name per code point
AadhaarHindi == <<"U+0906", "U+0927", "U+093E", "U+0930">>

\* r'(?:Aadhaar|Aadhar|<hindi>|UID)\s*(?:Number|No\.?)?\s*[:]?\s*(\d{4}\s?\d{4}\s?\d{4})'
label_pattern_1 ==
    Pat(Cat(<<Alt(<<Str(<<"A", "a", "d", "h", "a", "a", "r">>),
                    Str(<<"A", "a", "d", "h", "a", "r">>),
                    Str(AadhaarHindi),
                    Str(<<"U", "I", "D">>)>>),
              Star(WS),
              Opt(Alt(<<Str(<<"N", "u", "m", "b", "e", "r">>),
                        Cat(<<Str(<<"N", "o">>), Opt(Cls({"."}))>>)>>)),
              Star(WS), Opt(Cls({":"})), Star(WS)>>),
        DigitRun, Eps, 1)

\* r'\d{4}\s?\d{4}\s?\d{4}(?=\s*\(?\d{1,2}\)?)': no capture group
label_pattern_2 ==
    Pat(Cat(<<DigitRun,
              Look(Cat(<<Star(WS), Opt(Cls({"("})), Rep(D, 1, 2), Opt(Cls({")"}))>>))>>),
        Eps, Eps, 0)

label_patterns == <<label_pattern_1, label_pattern_2>>

\* a faulty variant of the validity rule: the length is not looked at
FirstDigitOnly(a) == a # <<>> /\ a[1] \notin {"0", "1"}

\* len(aadhaar) == 12 and aadhaar[0] not in ['0', '1']
ValidAadhaar(a) == Len(a) = 12 /\ a[1] \notin {"0", "1"}

RECURSIVE LabelLoop(_, _)
\* the loop over label_patterns, from pattern k on
LabelLoop(text, k) ==
    IF k > Len(label_patterns) THEN [exc |-> "", val |-> None]
    ELSE LET checked(aadhaar) ==
                 IF ValidAadhaar(aadhaar) THEN [exc |-> "", val |-> aadhaar]
                 ELSE LabelLoop(text, k + 1)
             grouped(g) == IF g.exc # "" THEN g ELSE checked(RemoveSpaces(g.val))
             searched(m) ==
                 IF m = <<>> THEN LabelLoop(text, k + 1)
                 ELSE grouped(Group1(label_patterns[k], text, m[1]))
         IN  searched(Search(label_patterns[k], text, TRUE))

\* extract_aadhaar(text): the value returned, or the exception raised
extract_aadhaar(text) ==
    LET checked(aadhaar) ==
            IF ValidAadhaar(aadhaar) THEN [exc |-> "", val |-> aadhaar]
            ELSE LabelLoop(text, 1)
        searched(m) ==
            IF m = <<>> THEN LabelLoop(text, 1)
            ELSE checked(RemoveSpaces(Group1(aadhaar_regex, text, m[1]).val))
    IN  searched(Search(aadhaar_regex, text, FALSE))


(***************************************************************************)
(* The similarity scorer (fuzzywuzzy.fuzz over difflib.SequenceMatcher)    *)
(***************************************************************************)
RECURSIVE CommonPrefix(_, _, _, _, _, _)
\* the length of the longest common prefix of a[i..ahi) and b[j..bhi)
CommonPrefix(a, i, ahi, b, j, bhi) ==
    IF i < ahi /\ j < bhi /\ a[i] = b[j]
    THEN 1 + CommonPrefix(a, i + 1, ahi, b, j + 1, bhi)
    ELSE 0

\* SequenceMatcher.find_longest_match without junk: the longest block, the
\* earliest in a among the longest, the earliest in b among those
find_longest_match(a, alo, ahi, b, blo, bhi) ==
    LET earliest(longest, best) ==
            LET at(i) == <<i, Min({pr[2] : pr \in {q \in longest : q[1] = i}}), best>>
            IN  at(Min({pr[1] : pr \in longest}))
        among(k, best) ==
            IF best = 0 THEN <<alo, blo, 0>>
            ELSE earliest({pr \in DOMAIN k : k[pr] = best}, best)
        longest_of(k) == among(k, IF DOMAIN k = {} THEN 0 ELSE Max({k[pr] : pr \in DOMAIN k}))
    IN  longest_of([pr \in (alo .. ahi - 1) \X (blo .. bhi - 1) |->
                       CommonPrefix(a, pr[1], ahi, b, pr[2], bhi)])

RECURSIVE MatchingBlocks(_, _, _, _, _, _)
\* SequenceMatcher.get_matching_blocks, without the closing dummy block
MatchingBlocks(a, alo, ahi, b, blo, bhi) ==
    LET around(x) ==
            IF x[3] = 0 THEN <<>>
            ELSE MatchingBlocks(a, alo, x[1], b, blo, x[2])
                 \o <<x>>
                 \o MatchingBlocks(a, x[1] + x[3], ahi, b, x[2] + x[3], bhi)
    IN  around(find_longest_match(a, alo, ahi, b, blo, bhi))

get_matching_blocks(a, b) == MatchingBlocks(a, 1, Len(a) + 1, b, 1, Len(b) + 1)

RECURSIVE SumSizes(_)
SumSizes(blocks) == IF blocks = <<>> THEN 0 ELSE Head(blocks)[3] + SumSizes(Tail(blocks))

\* int(round(100 * num / den)), round-half-to-even
RoundPct(num, den) ==
    LET rounded(q, r) ==
            IF 2 * r > den THEN q + 1
            ELSE IF 2 * r < den THEN q
            ELSE IF q % 2 = 0 THEN q ELSE q + 1
    IN  rounded((100 * num) \div den, (100 * num) % den)

\* int(round(100 * SequenceMatcher(None, a, b).ratio()))
SeqRatio(a, b) ==
    IF Len(a) + Len(b) = 0 THEN 100
    ELSE RoundPct(2 * SumSizes(get_matching_blocks(a, b)), Len(a) + Len(b))

\* fuzz.ratio
fuzz_ratio(s1, s2) ==
    IF s1 = s2 THEN 100
    ELSE IF Len(s1) = 0 \/ Len(s2) = 0 THEN 0
    ELSE SeqRatio(s1, s2)


\* the ratio of one block of fuzz.partial_ratio, as the pair <<2 * matches, total>>
PartialPair(shorter, longer, block) ==
    LET pair(long_substr) ==
            <<2 * SumSizes(get_matching_blocks(shorter, long_substr)),
              Len(shorter) + Len(long_substr)>>
        from(long_start) ==
            pair(Slice(longer, long_start,
                       Min({long_start + Len(shorter), Len(longer) + 1})))
    IN  from(IF block[2] - block[1] > 0 THEN block[2] - block[1] + 1 ELSE 1)

\* fuzz.partial_ratio
fuzz_partial_ratio(s1, s2) ==
    IF s1 = s2 THEN 100
    ELSE IF Len(s1) = 0 \/ Len(s2) = 0 THEN 0
    ELSE LET best(pairs) ==
                 IF \E pr \in pairs : 1000 * pr[1] > 995 * pr[2] THEN 100
                 ELSE Max({RoundPct(pr[1], pr[2]) : pr \in pairs})
             over(shorter, longer, blocks) ==
                 best({PartialPair(shorter, longer, blocks[i]) : i \in DOMAIN blocks})
             ordered(shorter, longer) ==
                 over(shorter, longer,
                      get_matching_blocks(shorter, longer)
                      \o <<<<Len(shorter) + 1, Len(longer) + 1, 0>>>>)
         IN  ordered(IF Len(s1) <= Len(s2) THEN s1 ELSE s2,
                     IF Len(s1) <= Len(s2) THEN s2 ELSE s1)

(***************************************************************************)
(* str.split, sorted, " ".join                                             *)
(***************************************************************************)
RECURSIVE SplitOn(_, _, _)
\* the pieces of s from position st on between the characters of seps,
\* empty pieces included
SplitOn(s, seps, st) ==
    LET upto(e) == <<Slice(s, st, e)>> \o (IF e > Len(s) THEN <<>> ELSE SplitOn(s, seps, e + 1))
    IN  upto(Min({i \in st .. Len(s) : s[i] \in seps} \cup {Len(s) + 1}))

\* str.split(): the whitespace-separated tokens
Split(s) == SelectSeq(SplitOn(s, Space, 1), LAMBDA t : t # <<>>)

\* str.split('\n')
SplitLines(s) == SplitOn(s, {"\n"}, 1)

\* the code-point order of the characters a processed string can hold
OrdSeq == <<" ", "0", "1", "2", "3", "4", "5", "6", "7", "8", "9", "_">> \o LowerSeq

Ord(c) == CHOOSE i \in DOMAIN OrdSeq : OrdSeq[i] = c

RECURSIVE StrLess(_, _)
\* a < b on Python strings
StrLess(a, b) ==
    IF b = <<>> THEN FALSE
    ELSE IF a = <<>> THEN TRUE
    ELSE IF Head(a) = Head(b) THEN StrLess(Tail(a), Tail(b))
    ELSE Ord(Head(a)) < Ord(Head(b))

RECURSIVE Insert(_, _)
Insert(t, sorted) ==
    IF sorted = <<>> THEN <<t>>
    ELSE IF StrLess(t, Head(sorted)) THEN <<t>> \o sorted
    ELSE <<Head(sorted)>> \o Insert(t, Tail(sorted))

RECURSIVE Sorted(_)
\* sorted(tokens)
Sorted(tokens) == IF tokens = <<>> THEN <<>> ELSE Insert(Head(tokens), Sorted(Tail(tokens)))

RECURSIVE Join(_)
\* " ".join(tokens)
Join(tokens) ==
    IF tokens = <<>> THEN <<>>
    ELSE IF Len(tokens) = 1 THEN Head(tokens)
    ELSE Head(tokens) \o <<" ">> \o Join(Tail(tokens))

\* fuzzywuzzy utils.full_process: non-word characters to spaces, lower, strip
full_process(s) == Strip([i \in DOMAIN s |-> IF s[i] \in WordChars THEN LowerChar(s[i]) ELSE " "])

\* fuzz.token_sort_ratio
fuzz_token_sort_ratio(s1, s2) ==
    fuzz_ratio(Join(Sorted(Split(full_process(s1)))), Join(Sorted(Split(full_process(s2)))))

(***************************************************************************)
(* extract_name and validate_name_candidate                                *)
(***************************************************************************)
min_name_similarity == 75

max_name_length == 40

\* the Devanagari word of the label, one name per code point
NameHindi == <<"U+0928", "U+093E", "U+092E">>

NameWord == Str(<<"N", "a", "m", "e">>)

\* r'(?:Name|name|<hindi>|NAME)\s*[:]?\s*([^\n]+)'
name_pattern_1 ==
    Pat(Cat(<<Alt(<<NameWord, Str(<<"n", "a", "m", "e">>), Str(NameHindi),
                    Str(<<"N", "A", "M", "E">>)>>),
              Star(WS), Opt(Cls({":"})), Star(WS)>>),
        Plus(Dot), Eps, 1)

\* r'To\s+(.+)'
name_pattern_2 == Pat(Cat(<<Str(<<"T", "o">>), Plus(WS)>>), Plus(Dot), Eps, 1)

\* r'(?:Mr\.?|Ms\.?|Mrs\.?|Shri|Smt|Km)\s+(.+)'
name_pattern_3 ==
    Pat(Cat(<<Alt(<<Cat(<<Str(<<"M", "r">>), Opt(Cls({"."}))>>),
                    Cat(<<Str(<<"M", "s">>), Opt(Cls({"."}))>>),
                    Cat(<<Str(<<"M", "r", "s">>), Opt(Cls({"."}))>>),
                    Str(<<"S", "h", "r", "i">>),
                    Str(<<"S", "m", "t">>),
                    Str(<<"K", "m">>)>>),
              Plus(WS)>>),
        Plus(Dot), Eps, 1)

\* [A-Z][a-z]+
CapWord == Cat(<<Cls(Upper), Plus(Cls(Lower))>>)

\* r'^([A-Z][a-z]+(?:\s+[A-Z][a-z]+)+)$'
name_pattern_4 == Pat(Bol, Cat(<<CapWord, Plus(Cat(<<Plus(WS), CapWord>>))>>), Eol, 1)

name_patterns == <<name_pattern_1, name_pattern_2, name_pattern_3, name_pattern_4>>

\* r'^[A-Za-z\s\-\.]+$'
NameCharsPattern == Pat(Bol, Plus(Cls(Letters \cup Space \cup {"-", "."})), Eol, 1)

FirstNameThreshold == 60

\* a faulty variant of the threshold test: a score equal to the threshold passes
ScoreAtLeast(score) == score >= FirstNameThreshold

\* fuzz.ratio(input_first_name, candidate_first_name) > 60
ScorePasses(score) == score > FirstNameThreshold

\* the score validate_name_candidate compares with the threshold
FirstNameScore(candidate, in_name) ==
    fuzz_ratio(LowerStr(Split(in_name)[1]), LowerStr(Split(candidate)[1]))

\* input_first_name in candidate.lower()
Contains(hay, needle) ==
    \E i \in 1 .. (Len(hay) - Len(needle) + 1) : SubSeq(hay, i, i + Len(needle) - 1) = needle

FirstNameInCandidate(candidate, in_name) ==
    Contains(LowerStr(candidate), LowerStr(Split(in_name)[1]))

\* validate_name_candidate(candidate, input_name): the value returned, or
\* the exception raised
validate_name_candidate(candidate, in_name) ==
    IF candidate = <<>> \/ Len(candidate) > max_name_length
    THEN [exc |-> "", val |-> FALSE]
    ELSE IF MatchAt(NameCharsPattern, candidate, 1, FALSE) = <<>>
    THEN [exc |-> "", val |-> FALSE]
    \* input_name.split()[0], candidate.split()[0]
    ELSE IF Split(in_name) = <<>> \/ Split(candidate) = <<>>
    THEN [exc |-> "IndexError", val |-> FALSE]
    ELSE [exc |-> "",
          val |-> ScorePasses(FirstNameScore(candidate, in_name))
                  \/ FirstNameInCandidate(candidate, in_name)]

RECURSIVE CandidatesOf(_, _, _)
\* match.group(1).strip() of every match of one pattern, in match order
CandidatesOf(pat, text, ms) ==
    IF ms = <<>> THEN <<>>
    ELSE <<Strip(Group1(pat, text, Head(ms)).val)>> \o CandidatesOf(pat, text, Tail(ms))

RECURSIVE CandidatesFrom(_, _)
\* the candidates of the patterns from pattern k on, in the order the two
\* nested loops of extract_name visit them
CandidatesFrom(text, k) ==
    IF k > Len(name_patterns) THEN <<>>
    ELSE CandidatesOf(name_patterns[k], text, FindIter(name_patterns[k], text, TRUE))
         \o CandidatesFrom(text, k + 1)

NameCandidates(text) == CandidatesFrom(text, 1)

RECURSIVE PatternLoop(_, _, _)
\* the pattern loop over the candidates cs, from best so far
PatternLoop(cs, in_name, best) ==
    IF cs = <<>> \/ best.exc # "" THEN best
    ELSE LET step(candidate, v, score) ==
                 IF v.exc # "" THEN [best EXCEPT !.exc = v.exc]
                 ELSE IF v.val /\ score > best.score
                 THEN PatternLoop(Tail(cs), in_name,
                                  [exc |-> "", match |-> candidate, score |-> score])
                 ELSE PatternLoop(Tail(cs), in_name, best)
         IN  step(Head(cs), validate_name_candidate(Head(cs), in_name),
                  fuzz_ratio(LowerStr(in_name), LowerStr(Head(cs))))

HasDigit(s) == \E i \in DOMAIN s : s[i] \in Digits

RECURSIVE LineLoop(_, _, _)
\* the line-by-line fallback, from best so far
LineLoop(lines, in_name, best) ==
    IF lines = <<>> THEN best
    ELSE LET step(line, score) ==
                 IF 3 < Len(line) /\ Len(line) < max_name_length /\ ~HasDigit(line)
                    /\ score > best.score
                 THEN LineLoop(Tail(lines), in_name,
                               [exc |-> "", match |-> line, score |-> score])
                 ELSE LineLoop(Tail(lines), in_name, best)
             scored(line) ==
                 step(line, fuzz_partial_ratio(LowerStr(in_name), LowerStr(line)))
         IN  scored(Strip(Head(lines)))

\* extract_name(text, input_name): the value returned, or the exception raised
extract_name(text, in_name) ==
    LET returned(b2) ==
            IF b2.exc # "" THEN [exc |-> b2.exc, val |-> None]
            ELSE [exc |-> "",
                  val |-> IF b2.score >= min_name_similarity THEN b2.match ELSE None]
        fallback(b1) ==
            returned(IF b1.exc = "" /\ b1.score < min_name_similarity
                     THEN LineLoop(SplitLines(text), in_name, b1)
                     ELSE b1)
    IN  fallback(PatternLoop(NameCandidates(text), in_name,
                             [exc |-> "", match |-> None, score |-> 0]))


(***************************************************************************)
(* The date parser: dateutil.parser.parse(s, dayfirst=True), for the date  *)
(* shapes the patterns of extract_dob can hand it: three numbers joined by *)
(* one separator, and day, month name, year.  Any other string is an       *)
(* unknown format (a ValueError).                                          *)
(***************************************************************************)
DigitSeq == <<"0", "1", "2", "3", "4", "5", "6", "7", "8", "9">>

DigitVal(c) == (CHOOSE i \in DOMAIN DigitSeq : DigitSeq[i] = c) - 1

RECURSIVE ToInt(_)
\* int(s) of a string of digits
ToInt(s) == IF s = <<>> THEN 0 ELSE 10 * ToInt(SubSeq(s, 1, Len(s) - 1)) + DigitVal(s[Len(s)])

CharKind(c) == IF c \in Digits THEN "num"
               ELSE IF c \in Letters THEN "alpha"
               ELSE IF c \in Space THEN "ws"
               ELSE "sep"

\* a token starts where the kind of character changes, and at every
\* character that is neither a digit nor a letter
TokenStart(s, i) ==
    i = 1 \/ CharKind(s[i]) \notin {"num", "alpha"} \/ CharKind(s[i]) # CharKind(s[i - 1])

RECURSIVE Lex(_, _)
\* the tokens of a string from position st on: runs of digits, runs of
\* letters, and every other character alone
Lex(s, st) ==
    IF st > Len(s) THEN <<>>
    ELSE LET upto(e) == <<[k |-> CharKind(s[st]), v |-> Slice(s, st, e)]>> \o Lex(s, e)
         IN  upto(Min({i \in (st + 1) .. Len(s) : TokenStart(s, i)} \cup {Len(s) + 1}))

\* the month names of dateutil's parserinfo, lower case; index = month
MonthAbbr == << <<"j", "a", "n">>, <<"f", "e", "b">>, <<"m", "a", "r">>,
                <<"a", "p", "r">>, <<"m", "a", "y">>, <<"j", "u", "n">>,
                <<"j", "u", "l">>, <<"a", "u", "g">>, <<"s", "e", "p">>,
                <<"o", "c", "t">>, <<"n", "o", "v">>, <<"d", "e", "c">> >>

MonthFull == << <<"j", "a", "n", "u", "a", "r", "y">>,
                <<"f", "e", "b", "r", "u", "a", "r", "y">>,
                <<"m", "a", "r", "c", "h">>,
                <<"a", "p", "r", "i", "l">>,
                <<"m", "a", "y">>,
                <<"j", "u", "n", "e">>,
                <<"j", "u", "l", "y">>,
                <<"a", "u", "g", "u", "s", "t">>,
                <<"s", "e", "p", "t", "e", "m", "b", "e", "r">>,
                <<"o", "c", "t", "o", "b", "e", "r">>,
                <<"n", "o", "v", "e", "m", "b", "e", "r">>,
                <<"d", "e", "c", "e", "m", "b", "e", "r">> >>

\* parserinfo.month: the month a name stands for, 0 when it is no month
MonthOf(name) ==
    LET among(n, hits) ==
            IF n = <<"s", "e", "p", "t">> THEN 9
            ELSE IF hits = {} THEN 0 ELSE Min(hits)
        named(n) == among(n, {i \in DOMAIN MonthAbbr : MonthAbbr[i] = n \/ MonthFull[i] = n})
    IN  named(LowerStr(name))

IsLeap(y) == (y % 4 = 0 /\ y % 100 # 0) \/ y % 400 = 0

DaysInMonth(y, m) ==
    IF m = 2 THEN (IF IsLeap(y) THEN 29 ELSE 28)
    ELSE IF m \in {4, 6, 9, 11} THEN 30 ELSE 31

\* what datetime accepts
ValidDate(y, m, d) ==
    /\ y >= 1 /\ y <= 9999
    /\ m >= 1 /\ m <= 12
    /\ d >= 1 /\ d <= DaysInMonth(y, m)

BadDate == [ok |-> FALSE, y |-> 0, m |-> 0, d |-> 0]

\* parserinfo.convertyear, in a run whose current year is nowYear
ConvertYear(year, century_specified, nowYear) ==
    IF year < 100 /\ ~century_specified
    THEN LET near(y1) == IF y1 >= nowYear + 50 THEN y1 - 100
                         ELSE IF y1 < nowYear - 50 THEN y1 + 100
                         ELSE y1
         IN  near(year + (nowYear \div 100) * 100)
    ELSE year

DateOf(y, m, d) == IF ValidDate(y, m, d) THEN [ok |-> TRUE, y |-> y, m |-> m, d |-> d] ELSE BadDate

\* _ymd.resolve_ymd for three numbers none of which is a month name;
\* lens are the lengths of the three digit strings
ResolveNumeric(v, lens, dayfirst, nowYear) ==
    LET ordered(ymd, cs) == DateOf(ConvertYear(ymd[1], cs, nowYear), ymd[2], ymd[3])
        resolve(long, ystridx) ==
            IF Cardinality(long) > 1 THEN BadDate
            ELSE ordered(IF v[1] > 31 \/ ystridx = 1
                         THEN IF dayfirst /\ v[3] <= 12
                              THEN <<v[1], v[3], v[2]>>
                              ELSE <<v[1], v[2], v[3]>>
                         ELSE IF v[1] > 12 \/ (dayfirst /\ v[2] <= 12)
                         THEN <<v[3], v[2], v[1]>>
                         ELSE <<v[3], v[1], v[2]>>,
                         long # {})
        stated(long) == resolve(long, IF long = {} THEN 0 ELSE Min(long))
    IN  stated({i \in 1 .. 3 : lens[i] > 2})

IsNum(tok) == tok.k = "num" /\ Len(tok.v) <= 4

IsDateSep(tok) == tok.k = "sep" /\ tok.v \in {<<"/">>, <<"-">>}

\* the tokens with the white space dropped
NoWs(toks) == SelectSeq(toks, LAMBDA t : t.k # "ws")

\* parse(s, dayfirst=dayfirst): [ok |-> FALSE] stands for the ValueError
Parse(s, dayfirst, nowYear) ==
    LET named(bare, month) ==
            IF /\ IsNum(bare[1]) /\ Len(bare[1].v) <= 2
               /\ bare[2].k = "alpha" /\ month # 0
               /\ IsNum(bare[3]) /\ Len(bare[3].v) = 4 /\ ToInt(bare[3].v) > 100
            THEN DateOf(ToInt(bare[3].v), month, ToInt(bare[1].v))
            ELSE BadDate
        worded(toks, bare) ==
            IF /\ Len(bare) = 3 /\ Len(toks) >= 5
               /\ toks[1].k = "num" /\ toks[Len(toks)].k = "num"
            THEN named(bare, IF bare[2].k = "alpha" THEN MonthOf(bare[2].v) ELSE 0)
            ELSE BadDate
        tokens(toks) ==
            IF /\ Len(toks) = 5
               /\ IsNum(toks[1]) /\ IsDateSep(toks[2]) /\ IsNum(toks[3])
               /\ toks[4] = toks[2] /\ IsNum(toks[5])
            THEN ResolveNumeric(<<ToInt(toks[1].v), ToInt(toks[3].v), ToInt(toks[5].v)>>,
                                <<Len(toks[1].v), Len(toks[3].v), Len(toks[5].v)>>,
                                dayfirst, nowYear)
            ELSE worded(toks, NoWs(toks))
    IN  tokens(Lex(s, 1))

\* two digits, zero padded
Pad2(n) == <<DigitSeq[((n \div 10) % 10) + 1], DigitSeq[(n % 10) + 1]>>

\* strftime('%d-%m-%Y')
StrfDMY(dt) == Pad2(dt.d) \o <<"-">> \o Pad2(dt.m) \o <<"-">>
               \o Pad2(dt.y \div 100) \o Pad2(dt.y % 100)

(***************************************************************************)
(* extract_dob                                                             *)
(***************************************************************************)
DateSep == Cls({"/", "-"})

MonthAlt == Alt([i \in DOMAIN MonthAbbr |-> Str(MonthAbbr[i])])

\* the Devanagari label, one name per code point
DobHindi == <<"U+091C", "U+0928", "U+094D", "U+092E", " ",
              "U+0924", "U+093F", "U+0925", "U+093F">>

date_patterns ==
    << \* r'\b(\d{2}[/-]\d{2}[/-]\d{4})\b'
       Pat(Bnd, Cat(<<Rep(D, 2, 2), DateSep, Rep(D, 2, 2), DateSep, Rep(D, 4, 4)>>), Bnd, 1),
       \* r'\b(\d{4}[/-]\d{2}[/-]\d{2})\b'
       Pat(Bnd, Cat(<<Rep(D, 4, 4), DateSep, Rep(D, 2, 2), DateSep, Rep(D, 2, 2)>>), Bnd, 1),
       \* r'\b(\d{1,2}\s+(?:Jan|...|Dec)[a-z]*\s+\d{4})\b'
       Pat(Bnd, Cat(<<Rep(D, 1, 2), Plus(WS), MonthAlt, Star(Cls(Lower)), Plus(WS),
                      Rep(D, 4, 4)>>), Bnd, 1),
       \* r'\b(?:DOB|Dob|dob|Date of Birth|<hindi>)\s*[:]?\s*([^\n]+)'
       Pat(Cat(<<Bnd,
                 Alt(<<Str(<<"D", "O", "B">>), Str(<<"D", "o", "b">>), Str(<<"d", "o", "b">>),
                       Str(<<"D", "a", "t", "e", " ", "o", "f", " ", "B", "i", "r", "t", "h">>),
                       Str(DobHindi)>>),
                 Star(WS), Opt(Cls({":"})), Star(WS)>>),
           Plus(Dot), Eps, 1) >>

RECURSIVE DobLoop(_, _, _)
\* the loop over date_patterns, from pattern k on
DobLoop(text, k, nowYear) ==
    IF k > Len(date_patterns) THEN None
    ELSE LET formatted(parsed_date) ==
                 IF parsed_date.ok THEN StrfDMY(parsed_date)
                 ELSE DobLoop(text, k + 1, nowYear)
             searched(m) ==
                 IF m = <<>> THEN DobLoop(text, k + 1, nowYear)
                 ELSE formatted(Parse(Strip(Group1(date_patterns[k], text, m[1]).val),
                                      TRUE, nowYear))
         IN  searched(Search(date_patterns[k], text, TRUE))

\* extract_dob(text)
extract_dob(text, nowYear) == DobLoop(text, 1, nowYear)


(***************************************************************************)
(* verify_details and calculate_age                                        *)
(***************************************************************************)
\* a faulty variant of the guard: every value counts as absent
AlwaysFalsy(x) == TRUE

\* "not x" for an Optional[str]
Falsy(x) == x = None \/ x = <<>>

\* similarity >= self.min_name_similarity
NameMatches(extracted_name, in_name) ==
    fuzz_token_sort_ratio(LowerStr(in_name), LowerStr(extracted_name)) >= min_name_similarity

\* parse(extracted['dob'], dayfirst=True) == parse(input_dob, dayfirst=True),
\* False on a ValueError
DobMatches(extracted_dob, in_dob, nowYear) ==
    LET same(extracted_date, input_date) ==
            extracted_date.ok /\ input_date.ok /\ extracted_date = input_date
    IN  same(Parse(extracted_dob, TRUE, nowYear), Parse(in_dob, TRUE, nowYear))

\* extracted['aadhaar'].replace(' ', '') == input_aadhaar.replace(' ', '')
AadhaarMatches(extracted_aadhaar, in_aadhaar) ==
    RemoveSpaces(extracted_aadhaar) = RemoveSpaces(in_aadhaar)

\* a faulty variant of the conjunction: any(results.values())
AnyOf(name_match, dob_match, aadhaar_match) == name_match \/ dob_match \/ aadhaar_match

\* all(results.values())
AllOf(name_match, dob_match, aadhaar_match) == name_match /\ dob_match /\ aadhaar_match

\* verify_details(extracted, input_name, input_dob, input_aadhaar)
verify_details(ex, in_name, in_dob, in_aadhaar, nowYear) ==
    LET results(name_match, dob_match, aadhaar_match) ==
            [name_match |-> name_match, dob_match |-> dob_match,
             aadhaar_match |-> aadhaar_match,
             all_match |-> AllOf(name_match, dob_match, aadhaar_match)]
    IN  results(~Falsy(ex.name) /\ ~Falsy(in_name) /\ NameMatches(ex.name, in_name),
                ~Falsy(ex.dob) /\ ~Falsy(in_dob) /\ DobMatches(ex.dob, in_dob, nowYear),
                ~Falsy(ex.aadhaar) /\ ~Falsy(in_aadhaar)
                /\ AadhaarMatches(ex.aadhaar, in_aadhaar))

\* an Optional[int]: <<>> is None, <<n>> is the integer n
NoAge == <<>>

\* a faulty variant of the birthday test: <= in place of <
OnOrBeforeBirthday(now, dob) == now.m < dob.m \/ (now.m = dob.m /\ now.d <= dob.d)

\* (today.month, today.day) < (dob.month, dob.day)
BeforeBirthday(now, dob) == now.m < dob.m \/ (now.m = dob.m /\ now.d < dob.d)

\* calculate_age(dob_str), run on the day now
calculate_age(dob_str, now) ==
    IF Falsy(dob_str) THEN NoAge
    ELSE LET years(dob) ==
                 IF ~dob.ok THEN NoAge
                 ELSE IF BeforeBirthday(now, dob) THEN <<now.y - dob.y - 1>>
                 ELSE <<now.y - dob.y>>
         IN  years(Parse(dob_str, TRUE, now.y))

\* age is not None and 13 <= age < 20
IsTeen(a) == a # NoAge /\ 13 <= a[1] /\ a[1] < 20


(***************************************************************************)
(* The inputs of the pipeline: what recognition can read off a card, and   *)
(* the claimed identity                                                    *)
(***************************************************************************)
NameLine == <<"N", "a", "m", "e", ":", " ", "R", "a", "v", "i", " ", "K", "u", "m", "a", "r">>

OtherNameLine == <<"N", "a", "m", "e", ":", " ", "R", "a", "h", "u", "l", " ", "K">>

LongNameLine == <<"R", "a", "v", "i", " ", "K", "u", "m", "a", "r", " ", "S", "i", "n", "g", "h", " ", "C", "h", "a", "u", "h", "a", "n">>

DobLine == <<"D", "O", "B", ":", " ", "0", "5", "/", "0", "3", "/", "1", "9", "9", "9">>

OtherDobLine == <<"1", "2", " ", "M", "a", "r", " ", "2", "0", "0", "5">>

GenderLine == <<"M", "a", "l", "e">>

IdLine == <<"2", "3", "4", "5", " ", "6", "7", "8", "9", " ", "0", "1", "2", "3">>

OtherIdLine == <<"9", "8", "7", "6", " ", "5", "4", "3", "2", " ", "1", "0", "9", "8">>

ZeroIdLine == <<"0", "1", "2", "3", " ", "4", "5", "6", "7", " ", "8", "9", "0", "1", " ", "x", " ", "2", "3", "4", "5", " ", "6", "7", "8", "9", " ", "0", "1", "2", "3">>

LongRunLine == <<"2", "3", "4", "5", "6", "7", "8", "9", "0", "1", "2", "3", "4">>

TabIdLine == <<"U", "I", "D", " ", "2", "3", "4", "5", "\t", "6", "7", "8", "9", "\t", "0", "1", "2", "3">>

GluedIdLine == <<"x", "2", "3", "4", "5", "6", "7", "8", "9", "0", "1", "2", "3">>

ClaimedName == <<"R", "a", "v", "i", " ", "K", "u", "m", "a", "r">>

ClaimedIdNumber == <<"2", "3", "4", "5", "6", "7", "8", "9", "0", "1", "2", "3">>

ClaimedIdGrouped == <<"2", "3", "4", "5", " ", "6", "7", "8", "9", " ", "0", "1", "2", "3">>

ClaimedDob == <<"0", "5", "-", "0", "3", "-", "1", "9", "9", "9">>

ClaimedDobYearFirst == <<"1", "9", "9", "9", "-", "0", "3", "-", "0", "5">>

\* the lines of one recognised text, joined by line breaks
RECURSIVE Lines(_)
Lines(ls) ==
    IF ls = <<>> THEN <<>>
    ELSE IF Len(ls) = 1 THEN Head(ls)
    ELSE Head(ls) \o <<"\n">> \o Lines(Tail(ls))

\* the pooled texts extract_text can return for one image variant
PooledTexts ==
    { <<>>,
      NameLine,
      DobLine,
      IdLine,
      Lines(<<NameLine, DobLine, GenderLine, IdLine>>),
      Lines(<<NameLine, DobLine, IdLine>>),
      OtherIdLine,
      ZeroIdLine,
      LongRunLine,
      TabIdLine,
      GluedIdLine,
      Lines(<<OtherDobLine, LongNameLine>>),
      OtherNameLine }

\* texts = [extract_text(thresh1), extract_text(thresh2), extract_text(filtered)]
NumVariants == 3

TextLists == [1 .. NumVariants -> PooledTexts]

InputNames == {ClaimedName}

InputDobs == {ClaimedDob, ClaimedDobYearFirst}

InputAadhaars == {ClaimedIdNumber, ClaimedIdGrouped}

\* the days datetime.now() can return
Day(y, m, d) == [y |-> y, m |-> m, d |-> d]

Todays == {Day(2026, 11, 2), Day(2019, 3, 4)}


(***************************************************************************)
(* verify_aadhaar as a state machine                                       *)
(***************************************************************************)
VARIABLES
    pc,            \* where the call is
    input_name,    \* the claimed identity
    input_dob,
    input_aadhaar,
    today,         \* the day datetime.now() returns during the call
    texts,         \* the pooled texts, one per image variant
    idx,           \* the text the for loop is at
    extracted,     \* the dict extracted
    verification,  \* the dict verify_details returned
    age,           \* what calculate_age returned
    exc,           \* the exception being raised, "" when none
    result,        \* the dict verify_aadhaar returned
    calls,         \* every extractor invocation so far, as <<field, text index>>
    filledAt,      \* per field, the text index at which it was set, 0 when absent
    runs,          \* how often the verifier and the age calculator have run
    candidates     \* the name candidates validated, with the verdict on each

vars == <<pc, input_name, input_dob, input_aadhaar, today, texts, idx, extracted,
          verification, age, exc, result, calls, filledAt, runs, candidates>>

NoFields == [name |-> None, dob |-> None, aadhaar |-> None]

NoVerification == [name_match |-> FALSE, dob_match |-> FALSE, aadhaar_match |-> FALSE,
                   all_match |-> FALSE]

\* the locals of a call before anything is extracted
Blank ==
    /\ extracted = NoFields
    /\ verification = NoVerification
    /\ age = NoAge
    /\ exc = ""
    /\ result = [pending |-> TRUE]
    /\ calls = {}
    /\ filledAt = [name |-> 0, dob |-> 0, aadhaar |-> 0]
    /\ runs = [verify |-> 0, age |-> 0]
    /\ candidates = <<>>

Init ==
    /\ pc = "start"
    /\ input_name \in InputNames
    /\ input_dob \in InputDobs
    /\ input_aadhaar \in InputAadhaars
    /\ today \in Todays
    /\ texts = <<>>
    /\ idx = 0
    /\ Blank

Inputs == <<input_name, input_dob, input_aadhaar, today>>

\* raise e inside the try block
Raise(e) == pc' = "except" /\ exc' = e

\* img = cv2.imread(image_path); if img is None: return {'error': ...}
ReadImage ==
    /\ pc = "start"
    /\ \/ /\ pc' = "done"
          /\ result' = [error |-> "Could not read image file"]
          /\ exc' = exc
       \/ /\ pc' = "preprocess"
          /\ UNCHANGED <<result, exc>>
       \/ /\ Raise("cv2.error")
          /\ UNCHANGED result
    /\ UNCHANGED <<Inputs, texts, idx, extracted, verification, age, calls, filledAt,
                   runs, candidates>>

\* thresh1, thresh2, filtered = self.preprocess_image(img)
Preprocess ==
    /\ pc = "preprocess"
    /\ \/ pc' = "recognize" /\ exc' = exc
       \/ Raise("cv2.error")
    /\ UNCHANGED <<Inputs, texts, idx, extracted, verification, age, result, calls,
                   filledAt, runs, candidates>>

\* texts = [self.extract_text(thresh1), ...]; combined_text; the prints;
\* extracted = {'name': None, 'dob': None, 'aadhaar': None}
Recognize ==
    /\ pc = "recognize"
    /\ \/ /\ \E ts \in TextLists : texts' = ts
          /\ pc' = "loop"
          /\ idx' = 1
          /\ exc' = exc
       \/ /\ Raise("TesseractError")
          /\ UNCHANGED <<texts, idx>>
    /\ UNCHANGED <<Inputs, extracted, verification, age, result, calls, filledAt, runs,
                   candidates>>

\* the years datetime.now() can fall in
NowYears == {d.y : d \in Todays}

\* what each extractor returns or raises on each pooled text: a call's
\* outcome depends on its arguments alone
NameOf == [t \in PooledTexts |-> [n \in InputNames |-> extract_name(t, n)]]

DobOf == [t \in PooledTexts |-> [y \in NowYears |-> extract_dob(t, y)]]

AadhaarOf == [t \in PooledTexts |-> extract_aadhaar(t)]

\* a faulty variant of the early exit: the loop never breaks
NeverAllFound(ex) == FALSE

\* all(extracted.values())
AllFound(ex) == ~Falsy(ex.name) /\ ~Falsy(ex.dob) /\ ~Falsy(ex.aadhaar)

\* one iteration of "for text in texts": the three guarded extractor calls,
\* then the early break
LoopBody(text, ex, in_name, nowYear) ==
    LET \* the state after the body, n and a being what the name and the
        \* number extractor returned or raised
        after(n, callDob, e2, callAadhaar, a) ==
            [extracted |-> IF a.exc = "" THEN [e2 EXCEPT !.aadhaar = a.val] ELSE e2,
             exc |-> IF n.exc # "" THEN n.exc ELSE a.exc,
             called |-> {f \in {"name", "dob", "aadhaar"} :
                            \/ f = "name" /\ Falsy(ex.name)
                            \/ f = "dob" /\ callDob
                            \/ f = "aadhaar" /\ callAadhaar}]
        \* if not extracted['aadhaar']: extracted['aadhaar'] = self.extract_aadhaar(text)
        aadhaarStep(n, callDob, e2, callAadhaar) ==
            after(n, callDob, e2, callAadhaar,
                  IF callAadhaar THEN AadhaarOf[text]
                  ELSE [exc |-> "", val |-> e2.aadhaar])
        \* if not extracted['dob']: extracted['dob'] = self.extract_dob(text)
        dobStep(n, e1, callDob) ==
            aadhaarStep(n, callDob,
                        IF callDob THEN [e1 EXCEPT !.dob = DobOf[text][nowYear]]
                        ELSE e1,
                        n.exc = "" /\ Falsy(e1.aadhaar))
        nameStep(n, e1) == dobStep(n, e1, n.exc = "" /\ Falsy(e1.dob))
        named(n) == nameStep(n, IF n.exc = "" THEN [ex EXCEPT !.name = n.val] ELSE ex)
    \* if not extracted['name']: extracted['name'] = self.extract_name(text, input_name)
    IN  named(IF Falsy(ex.name) THEN NameOf[text][in_name]
              ELSE [exc |-> "", val |-> ex.name])

LoopStep ==
    /\ pc = "loop"
    /\ idx <= Len(texts)
    /\ LET step(r) ==
               /\ extracted' = r.extracted
               /\ calls' = calls \cup {<<f, idx>> : f \in r.called}
               /\ filledAt' = [f \in DOMAIN filledAt |->
                                 IF filledAt[f] = 0 /\ ~Falsy(r.extracted[f]) THEN idx
                                 ELSE filledAt[f]]
               /\ IF r.exc # "" THEN Raise(r.exc) /\ idx' = idx
                  ELSE /\ exc' = exc
                       \* if all(extracted.values()): break
                       /\ IF AllFound(r.extracted) \/ idx = Len(texts)
                          THEN pc' = "verify" /\ idx' = idx
                          ELSE pc' = "loop" /\ idx' = idx + 1
       IN  step(LoopBody(texts[idx], extracted, input_name, today.y))
    /\ UNCHANGED <<Inputs, texts, verification, age, result, runs, candidates>>

\* verification = self.verify_details(extracted, input_name, input_dob, input_aadhaar)
Verify ==
    /\ pc = "verify"
    /\ verification' = verify_details(extracted, input_name, input_dob, input_aadhaar, today.y)
    /\ runs' = [runs EXCEPT !.verify = @ + 1]
    /\ pc' = "age"
    /\ UNCHANGED <<Inputs, texts, idx, extracted, age, exc, result, calls, filledAt,
                   candidates>>

\* age = self.calculate_age(extracted['dob'])
CalcAge ==
    /\ pc = "age"
    /\ age' = calculate_age(extracted.dob, today)
    /\ runs' = [runs EXCEPT !.age = @ + 1]
    /\ pc' = "return"
    /\ UNCHANGED <<Inputs, texts, idx, extracted, verification, exc, result, calls,
                   filledAt, candidates>>

\* is_teen = ...; return {'success': True, ...}
Return ==
    /\ pc = "return"
    /\ result' = [success |-> TRUE,
                  all_match |-> verification.all_match,
                  name_match |-> verification.name_match,
                  dob_match |-> verification.dob_match,
                  aadhaar_match |-> verification.aadhaar_match,
                  age |-> age,
                  is_teen |-> IsTeen(age),
                  extracted |-> extracted,
                  debug_text |-> texts]
    /\ pc' = "done"
    /\ UNCHANGED <<Inputs, texts, idx, extracted, verification, age, exc, calls,
                   filledAt, runs, candidates>>

\* the classes the try block can raise, all subclasses of Exception
ExceptionClasses == {"cv2.error", "TesseractError", "IndexError", "ValueError"}

\* a faulty variant of the handler: except ValueError as e
CatchesValueError(e) == e = "ValueError"

\* except Exception as e
Catches(e) == e \in ExceptionClasses

\* return {'error': f"Verification failed: {str(e)}", 'success': False}
Handler ==
    /\ pc = "except"
    /\ IF Catches(exc)
       THEN /\ result' = [error |-> "Verification failed", success |-> FALSE]
            /\ pc' = "done"
       ELSE /\ pc' = "propagated"
            /\ UNCHANGED result
    /\ UNCHANGED <<Inputs, texts, idx, extracted, verification, age, exc, calls,
                   filledAt, runs, candidates>>

Next ==
    \/ ReadImage
    \/ Preprocess
    \/ Recognize
    \/ LoopStep
    \/ Verify
    \/ CalcAge
    \/ Return
    \/ Handler

Spec == Init /\ [][Next]_vars


(***************************************************************************)
(* extract_aadhaar on its own: one call on one recognised text             *)
(***************************************************************************)
\* the pieces recognition can put side by side on a line
Chunks ==
    << IdLine, ClaimedIdNumber,
       <<"2", "3", "4", "5", "\t", "6", "7", "8", "9", "\t", "0", "1", "2", "3">>,
       <<"0", "1", "2", "3", " ", "4", "5", "6", "7", " ", "8", "9", "0", "1">>,
       <<"1", "2", "3", "4", "5", "6", "7", "8", "9", "0", "1", "2">>,
       <<"9">>, <<" ">>, <<"x">>, <<"\n">>,
       <<"U", "I", "D", " ">>, <<" ", "(", "1", ")">> >>

\* the longest text is MaxChunks pieces long
MaxChunks == 2

RECURSIVE Concat(_)
Concat(parts) == IF parts = <<>> THEN <<>> ELSE Head(parts) \o Concat(Tail(parts))

AadhaarTexts ==
    UNION {{Concat([i \in 1 .. k |-> Chunks[pick[i]]]) : pick \in [1 .. k -> DOMAIN Chunks]} :
           k \in 1 .. MaxChunks}

InitAadhaar ==
    /\ pc = "aadhaar_call"
    /\ input_name = ClaimedName
    /\ input_dob = ClaimedDob
    /\ input_aadhaar = ClaimedIdNumber
    /\ today \in Todays
    /\ \E t \in AadhaarTexts : texts = <<t>>
    /\ idx = 1
    /\ Blank

\* extracted['aadhaar'] = self.extract_aadhaar(text), on the one text
CallExtractAadhaar ==
    /\ pc = "aadhaar_call"
    /\ LET returned(a) ==
               /\ exc' = a.exc
               /\ extracted' = IF a.exc = "" THEN [extracted EXCEPT !.aadhaar = a.val]
                               ELSE extracted
               /\ pc' = IF a.exc = "" THEN "aadhaar_returned" ELSE "aadhaar_raised"
       IN  returned(extract_aadhaar(texts[idx]))
    /\ calls' = calls \cup {<<"aadhaar", idx>>}
    /\ UNCHANGED <<Inputs, texts, idx, verification, age, result, filledAt, runs,
                   candidates>>

SpecAadhaar == InitAadhaar /\ [][CallExtractAadhaar]_vars


(***************************************************************************)
(* The date of birth on its own: extract_dob on one text, then the         *)
(* verifier and the age calculator                                         *)
(***************************************************************************)
\* a card holder is at most MaxAge years old in the year of the call
MaxAge == 21

BirthYears == {d.y - a : d \in Todays, a \in 0 .. MaxAge}

\* the <<day, month>> of birth: around the days of the calls, the claimed
\* day, a leap day and the ends of the year
Birthdays == {<<2, 11>>, <<1, 11>>, <<3, 11>>, <<4, 3>>, <<5, 3>>, <<29, 2>>,
              <<31, 12>>, <<1, 1>>}

Year4(y) == Pad2(y \div 100) \o Pad2(y % 100)

\* "DOB: DD/MM/YYYY"
DayFirstText(d, m, y) ==
    <<"D", "O", "B", ":", " ">> \o Pad2(d) \o <<"/">> \o Pad2(m) \o <<"/">> \o Year4(y)

\* "YYYY-MM-DD"
YearFirstText(d, m, y) == Year4(y) \o <<"-">> \o Pad2(m) \o <<"-">> \o Pad2(d)

DobTexts ==
    {<<>>, OtherDobLine}
    \cup {DayFirstText(b[1], b[2], y) : b \in Birthdays, y \in BirthYears}
    \cup {YearFirstText(b[1], b[2], y) : b \in Birthdays, y \in {1999, 2011}}

InitDob ==
    /\ pc = "dob_call"
    /\ input_name = ClaimedName
    /\ input_dob \in InputDobs
    /\ input_aadhaar = ClaimedIdNumber
    /\ today \in Todays
    /\ \E t \in DobTexts : texts = <<t>>
    /\ idx = 1
    /\ Blank

\* extracted['dob'] = self.extract_dob(text), on the one text
CallExtractDob ==
    /\ pc = "dob_call"
    /\ extracted' = [extracted EXCEPT !.dob = extract_dob(texts[idx], today.y)]
    /\ calls' = calls \cup {<<"dob", idx>>}
    /\ pc' = "verify"
    /\ UNCHANGED <<Inputs, texts, idx, verification, age, exc, result, filledAt, runs,
                   candidates>>

NextDob ==
    \/ CallExtractDob
    \/ Verify
    \/ CalcAge
    \/ Return

SpecDob == InitDob /\ [][NextDob]_vars


(***************************************************************************)
(* extract_name on its own: one call on one text, with every candidate of  *)
(* the pattern loop and the verdict of validate_name_candidate on it       *)
(***************************************************************************)
OtherClaimedName == <<"R", "a", "h", "u", "l", " ", "K">>

ClaimedNames == {ClaimedName, OtherClaimedName}

FirstTokens ==
    { <<"R", "a", "v", "i">>, <<"R", "a", "h", "u", "l">>, <<"R", "a", "h", "x", "y">>,
      <<"R", "x", "v", "i">>, <<"D", "r">>, <<"R", "4", "v", "i">>,
      <<"R", "a", "v", "i", "-", "K">>, <<"S", "r", "i", ".">> }

NameTails ==
    { <<>>, <<" ", "K">>, <<" ", "K", "u", "m", "a", "r">>,
      <<" ", "R", "a", "v", "i", " ", "K", "u", "m", "a", "r">>,
      <<" ", "R", "a", "h", "u", "l">>,
      <<" ", "K", "u", "m", "a", "r", " ", "S", "i", "n", "g", "h", " ",
        "C", "h", "a", "u", "h", "a", "n", " ", "V", "e", "n", "k", "a", "t", "a", " ",
        "S", "u", "b", "r", "a", "m", "a", "n", "i", "a", "n">> }

NameLabel == <<"N", "a", "m", "e", ":", " ">>

\* "Name: <candidate>", and a label with nothing but a space after it
NameTexts == {NameLabel \o f \o tl : f \in FirstTokens, tl \in NameTails}
             \cup {NameLabel \o <<" ">>}

InitName ==
    /\ pc = "name_call"
    /\ input_name \in ClaimedNames
    /\ input_dob = ClaimedDob
    /\ input_aadhaar = ClaimedIdNumber
    /\ today \in Todays
    /\ \E t \in NameTexts : texts = <<t>>
    /\ idx = 1
    /\ Blank

\* extracted['name'] = self.extract_name(text, input_name), on the one text
CallExtractName ==
    /\ pc = "name_call"
    /\ LET logged(cs) ==
               candidates' = [i \in DOMAIN cs |->
                                [candidate |-> cs[i],
                                 verdict |-> validate_name_candidate(cs[i], input_name)]]
           returned(n) ==
               /\ exc' = n.exc
               /\ extracted' = IF n.exc = "" THEN [extracted EXCEPT !.name = n.val]
                               ELSE extracted
               /\ pc' = IF n.exc = "" THEN "name_returned" ELSE "name_raised"
       IN  /\ logged(NameCandidates(texts[idx]))
           /\ returned(extract_name(texts[idx], input_name))
    /\ calls' = calls \cup {<<"name", idx>>}
    /\ UNCHANGED <<Inputs, texts, idx, verification, age, result, filledAt, runs>>

SpecName == InitName /\ [][CallExtractName]_vars


(***************************************************************************)
(* The properties                                                          *)
(***************************************************************************)
Fields == {"name", "dob", "aadhaar"}

\* a field holds a value
Present(v) == v # None /\ v # <<>>

\* the call returned the success dict
Succeeded == pc = "done" /\ "success" \in DOMAIN result /\ result.success

\* the call returned one of the two error dicts
Failed == pc = "done" /\ "error" \in DOMAIN result

\* the for loop is over and nothing was raised
PastLoop == pc \in {"verify", "age", "return"} \/ Succeeded

\* what the extractor of field f yields on the i-th pooled text
ExtractorVal(f, i) ==
    IF f = "name" THEN NameOf[texts[i]][input_name].val
    ELSE IF f = "dob" THEN DobOf[texts[i]][today.y]
    ELSE AadhaarOf[texts[i]].val

\* the texts on which the extractor of field f yields a value
Hits(f) == {i \in DOMAIN texts : Present(ExtractorVal(f, i))}

AllDigits(s) == \A i \in DOMAIN s : s[i] \in Digits

\* twelve digits, the first neither 0 nor 1
IsIdNumber(n) == Len(n) = 12 /\ AllDigits(n) /\ n[1] \notin {"0", "1"}

\* the number written in three groups of four
Grouped(n) == SubSeq(n, 1, 4) \o <<" ">> \o SubSeq(n, 5, 8) \o <<" ">> \o SubSeq(n, 9, 12)

ContainsNumber(t, n) == Contains(t, n) \/ Contains(t, Grouped(n))

MatchFields == {"all_match", "name_match", "dob_match", "aadhaar_match"}

\* C1: whenever the claimed number is a twelve-digit number not starting
\* with 0 or 1 and some pooled text contains it, contiguous or grouped
\* 4-4-4, the call reports aadhaar_match = true.
C1_IdMatchWhenPresent ==
    (/\ pc = "done"
     /\ IsIdNumber(input_aadhaar)
     /\ \E i \in DOMAIN texts : ContainsNumber(texts[i], input_aadhaar))
    => ("aadhaar_match" \in DOMAIN result /\ result.aadhaar_match)

\* C2: in every report of verify_details all_match is the conjunction of
\* the three flags, and the flag of an absent field is false, so that
\* all_match is false whenever a field is absent.
C2_AllMatchIffAll ==
    runs.verify = 1 =>
        /\ verification.all_match = (/\ verification.name_match
                                     /\ verification.dob_match
                                     /\ verification.aadhaar_match)
        /\ ~Present(extracted.name) => ~verification.name_match
        /\ ~Present(extracted.dob) => ~verification.dob_match
        /\ ~Present(extracted.aadhaar) => ~verification.aadhaar_match
        /\ (\E f \in Fields : ~Present(extracted[f])) => ~verification.all_match
        /\ Succeeded => /\ result.all_match = verification.all_match
                        /\ result.name_match = verification.name_match
                        /\ result.dob_match = verification.dob_match
                        /\ result.aadhaar_match = verification.aadhaar_match

\* the report of a call that found the name and the number but no date
C2_Witness ==
    /\ Succeeded
    /\ extracted.dob = None
    /\ result.name_match /\ result.aadhaar_match
    /\ ~result.dob_match /\ ~result.all_match

\* C3: in every state of the pipeline the extracted number is absent or is
\* twelve digits of which the first is neither 0 nor 1, also when a text
\* separates the groups by white space other than a plain space.
C3_IdWellFormed == extracted.aadhaar = None \/ IsIdNumber(extracted.aadhaar)

\* a number taken from the second text after a tab-separated one was passed over
C3_Witness ==
    /\ Succeeded
    /\ texts[1] = TabIdLine
    /\ filledAt.aadhaar = 2
    /\ Present(extracted.aadhaar)

\* a field that holds a value keeps it in every step
OnceSetKept == \A f \in Fields : Present(extracted[f]) => extracted'[f] = extracted[f]

\* after the loop each field holds what its extractor yielded on the first
\* visited text on which it yielded a value, and is absent when there is none
FirstHitKept ==
    PastLoop =>
        \A f \in Fields :
            LET seen == {i \in Hits(f) : i <= idx}
            IN  IF seen = {} THEN ~Present(extracted[f])
                ELSE extracted[f] = ExtractorVal(f, Min(seen))

\* C4: once a field of extracted is set no later text changes it, and its
\* final value is the result on the first text, in list order, for which
\* its extractor returned a value.
C4_FirstWins == [][OnceSetKept]_vars /\ []FirstHitKept

\* the number was set at the first text, and the second text, which was
\* visited, holds another number
C4_Witness ==
    /\ Succeeded
    /\ filledAt.aadhaar = 1
    /\ idx >= 2
    /\ Present(ExtractorVal("aadhaar", 2))
    /\ ExtractorVal("aadhaar", 2) # extracted.aadhaar

\* C5: verify_aadhaar never lets an exception out: an unreadable image or a
\* stage that raises ends in a result with an error description and no
\* field of the match report, and every other call ends in the success result.
C5_NeverPropagates ==
    /\ pc # "propagated"
    /\ pc = "except" => exc # ""
    /\ pc = "done" =>
           /\ Failed \/ Succeeded
           /\ Failed => /\ DOMAIN result \cap MatchFields = {}
                        /\ ~Succeeded
           /\ exc # "" => Failed
           /\ Succeeded => MatchFields \subseteq DOMAIN result

\* an IndexError raised by an extractor, reported as a failure
C5_Witness == Failed /\ exc = "IndexError" /\ calls # {}

\* the date a string denotes, read in the format it is written in:
\* YYYY-MM-DD or DD-MM-YYYY, with - or / between the numbers
CalendarDate(s) ==
    IF Len(s) = 10 /\ s[5] \in {"-", "/"}
    THEN [y |-> ToInt(SubSeq(s, 1, 4)), m |-> ToInt(SubSeq(s, 6, 7)),
          d |-> ToInt(SubSeq(s, 9, 10))]
    ELSE [y |-> ToInt(SubSeq(s, 7, 10)), m |-> ToInt(SubSeq(s, 4, 5)),
          d |-> ToInt(SubSeq(s, 1, 2))]

\* C6: dob_match does not depend on the format: it is true exactly when the
\* extracted and the claimed date are both present and denote the same
\* calendar date, also when the claimed date is written year first.
C6_FormatInsensitive ==
    Succeeded =>
        (result.dob_match
         <=> (Present(extracted.dob)
              /\ CalendarDate(extracted.dob) = CalendarDate(input_dob)))

\* the age the extracted date DD-MM-YYYY gives on the day of the call
ExpectedAge(dob_str, now) ==
    LET b == CalendarDate(dob_str)
    IN  now.y - b.y - (IF now.m < b.m \/ (now.m = b.m /\ now.d < b.d) THEN 1 ELSE 0)

\* C7: age is the current year minus the year of birth, less one exactly
\* when today's (month, day) comes before that of the birth; is_teen is
\* true exactly when the age is present and 13 <= age < 20; without a date
\* of birth the age is absent and is_teen is false.
C7_AgeAndTeen ==
    Succeeded =>
        IF Present(extracted.dob)
        THEN /\ result.age = <<ExpectedAge(extracted.dob, today)>>
             /\ result.is_teen = (13 <= ExpectedAge(extracted.dob, today)
                                  /\ ExpectedAge(extracted.dob, today) < 20)
        ELSE result.age = NoAge /\ ~result.is_teen

\* a birth exactly twenty years before the day of the call
C7_Witness ==
    /\ Succeeded
    /\ Present(extracted.dob)
    /\ CalendarDate(extracted.dob) = [y |-> today.y - 20, m |-> today.m, d |-> today.d]
    /\ result.age = <<20>>
    /\ ~result.is_teen

\* C8: on every text extract_aadhaar returns a number that passes the
\* twelve-digit rule or returns absent, and never raises.
C8_ReturnsOrAbsent ==
    pc # "aadhaar_call" =>
        /\ exc = ""
        /\ pc = "aadhaar_returned"
        /\ extracted.aadhaar = None \/ IsIdNumber(extracted.aadhaar)

\* C9: the texts are visited in list order, an extractor is called on a
\* text only for a field no earlier text has filled, the loop stops at the
\* text at which the third field is filled, and the verifier and the age
\* calculator each run once, after the loop, on the final extracted fields.
C9_OrderedShortCircuit ==
    /\ runs.verify <= 1 /\ runs.age <= 1
    /\ runs.verify = 1 => pc \in {"age", "return", "done"}
    /\ runs.age = 1 => (runs.verify = 1 /\ pc \in {"return", "done"})
    /\ \A c \in calls :
           /\ c[2] <= idx
           /\ \A j \in 1 .. (c[2] - 1) : <<c[1], j>> \in calls /\ j \notin Hits(c[1])
    /\ pc = "loop" => {c[2] : c \in calls} = 1 .. (idx - 1)
    /\ PastLoop =>
           /\ {c[2] : c \in calls} = 1 .. idx
           /\ IF \A f \in Fields : Present(extracted[f])
              THEN \A j \in 1 .. (idx - 1) : \E f \in Fields : \A i \in Hits(f) : i > j
              ELSE idx = Len(texts)
    /\ Succeeded => /\ runs.verify = 1 /\ runs.age = 1
                    /\ result.extracted = extracted
                    /\ result.all_match
                       = verify_details(extracted, input_name, input_dob, input_aadhaar,
                                        today.y).all_match
                    /\ result.age = calculate_age(extracted.dob, today)

\* a call whose loop stopped before the last text, all three fields filled
C9_Witness ==
    /\ Succeeded
    /\ idx < Len(texts)
    /\ \A f \in Fields : Present(extracted[f])
    /\ runs.verify = 1 /\ runs.age = 1

\* a character that is no letter, white space, hyphen or period
HasOtherChar(c) == \E i \in DOMAIN c : c[i] \notin (Letters \cup Space \cup {"-", "."})

\* the verdicts the pattern loop got, each with its candidate
Verdicts == {candidates[i] : i \in DOMAIN candidates}

\* C10 as stated: a candidate is rejected exactly when it is empty, longer
\* than 40 characters, holds another character, or its first token scores
\* below 60 against the claimed first name and does not contain it; a score
\* of exactly 60 is accepted.
C10_RejectsBelowSixty ==
    \A v \in Verdicts :
        /\ v.verdict.exc = ""
        /\ ~v.verdict.val
           <=> \/ v.candidate = <<>>
               \/ Len(v.candidate) > 40
               \/ HasOtherChar(v.candidate)
               \/ /\ FirstNameScore(v.candidate, input_name) < 60
                  /\ ~FirstNameInCandidate(v.candidate, input_name)

\* C10, amended: a candidate is rejected exactly when it is empty, longer
\* than 40 characters, holds another character, or its first token scores
\* 60 or less against the claimed first name and does not contain it; a
\* score of exactly 60 is rejected.
C10_RejectsUpToSixty ==
    \A v \in Verdicts :
        /\ v.verdict.exc = ""
        /\ ~v.verdict.val
           <=> \/ v.candidate = <<>>
               \/ Len(v.candidate) > 40
               \/ HasOtherChar(v.candidate)
               \/ /\ FirstNameScore(v.candidate, input_name) <= 60
                  /\ ~FirstNameInCandidate(v.candidate, input_name)

\* a candidate that passes the other tests and scores exactly 60, rejected
C10_Witness ==
    \E v \in Verdicts :
        /\ v.candidate # <<>>
        /\ Len(v.candidate) <= 40
        /\ ~HasOtherChar(v.candidate)
        /\ FirstNameScore(v.candidate, input_name) = 60
        /\ ~FirstNameInCandidate(v.candidate, input_name)
        /\ ~v.verdict.val

=============================================================================
